---- MODULE Spec2Model ----
(***************************************************************************)
(* RideShare dispatch engine: the replay scheduler (replayer.py), the ride *)
(* lifecycle worker (process_ride), the matcher with its Redis busy-set    *)
(* (matcher.py) and the retrying transaction harness (db.py run_txn).      *)
(*                                                                         *)
(* Spec     : the replayer runs with one worker per ride seed, against the *)
(*            drivers / rides_p / trips_p tables and the Redis busy-set.   *)
(*            A run_txn call is one step here: it either commits the       *)
(*            effects of its function once or raises with no effect.       *)
(* SpecTxn  : run_txn itself, attempt by attempt, with its counters.       *)
(* SpecOverlap, SpecCacheDown, SpecReset : the workers of Spec when        *)
(*            replayer() calls overlap on a seed, when Redis fails, and    *)
(*            when init_drivers is run again during a replay.              *)
(* SpecThreads : the run_txn calls of the pool's threads, with each read   *)
(*            and write of a shared counter as a step of its own.          *)
(***************************************************************************)
EXTENDS Integers, Sequences, FiniteSets, TLC

\* ---------------------------------------------------------------- bounds
NumRides == 2       \* ride seeds in nyc_clean
NumDrivers == 2     \* rows of the drivers table
MaxLaunches == 2    \* process_ride calls over all replayer() calls
MaxCrashLaunches == 3 \* the same, over the replays that may be interrupted
MaxThreadErrors == 1 \* store errors each worker thread's run_txn call catches (SpecThreads)
MaxPolls == 1       \* failed polls after which the wait has reached MAX_WAIT_SECONDS
MaxErrors == 1      \* store errors raised over all runs
MaxRetriesArg == 5  \* largest max_retries argument of a run_txn call in SpecTxn
MaxCalls == 2       \* run_txn calls in SpecTxn
MaxCompleted == 2   \* largest COMPLETED count a metrics sample reads
MaxClock == 2       \* seconds the clock advances in SpecMetrics
MaxSamples == 3     \* api_metrics calls in SpecMetrics

\* ------------------------------------------------------ program constants
CANDIDATE_LIMIT == 50
MAX_NEAREST_DRIVERS == 10
DEFAULT_MAX_RETRIES == 5

Rides == 1..NumRides
Drivers == 1..NumDrivers
NULL == 0
Values == {"None", "v1"}     \* what fn(cur) may return

VARIABLES
    rides,      \* rides_p: ride_id -> row (status "ABSENT": no row)
    drivers,    \* drivers: driver_id -> status
    trips,      \* trips_p: sequence of rows [ride_id, driver_id]
    busy,       \* the Redis set busy_drivers (strings)
    pc,         \* position of the process_ride worker of each seed
    busy_ids,   \* match_ride: snapshot of the busy set
    cand,       \* match_ride: nearest candidates not yet tried
    acq,        \* match_ride: acquired_driver_id
    skipped,    \* match_ride: drivers_skipped_redis
    drv,        \* process_ride: driver_id
    err,        \* process_ride: ended in the except branch
    launched,   \* process_ride calls submitted so far
    nerr,       \* store errors raised so far
    held,       \* history: drivers the worker acquired and has not released
    wins,       \* history: successful try_acquire_driver(d) since d's last release
    tx,         \* the run_txn call in progress (SpecTxn)
    retry_stats, \* db._retry_stats
    completed_count, \* replayer: futures whose result() returned
    failed_count,    \* replayer: futures whose result() raised
    first_end,  \* history: how the first pass over each seed ended
    last_completed, \* Redis key metrics:last_completed ("nil": no such key)
    last_time,  \* Redis key metrics:last_time ("nil": no such key)
    sample,     \* api_metrics: the sample last taken and the throughput it reported
    clock,      \* time.time(), in seconds
    seed,       \* process_ride: ride["ride_id"], the seed each worker processes
    zero_rows,  \* history: the ride update of the worker's match transaction changed no row
    th          \* the run_txn call of each worker thread, statement by statement (SpecThreads)

rvars == <<completed_count, failed_count, first_end>>
mvars == <<last_completed, last_time, sample, clock>>
wvars == <<rides, drivers, trips, busy, pc, busy_ids, cand, acq, skipped, drv, err, launched, nerr, held, wins, seed, zero_rows, rvars, mvars>>
vars == <<rides, drivers, trips, busy, pc, busy_ids, cand, acq, skipped, drv, err, launched, nerr, held, wins, tx, retry_stats, seed, zero_rows, th, rvars, mvars>>

\* ------------------------------------------------------------ SQL, Redis
AbsentRow == [status |-> "ABSENT", assigned_driver |-> NULL, retries |-> 0]

\* str(driver_id), driver_id::text
Str(d) == ToString(d)

\* INSERT INTO rides_p ... 'REQUESTED', 0 ON CONFLICT (ride_id) DO UPDATE
\* SET status = 'REQUESTED', requested_at = EXCLUDED.requested_at
UpsertRequested(rd, r) ==
    IF rd[r].status = "ABSENT"
    THEN [rd EXCEPT ![r] = [status |-> "REQUESTED", assigned_driver |-> NULL, retries |-> 0]]
    ELSE [rd EXCEPT ![r].status = "REQUESTED"]

\* UPDATE rides_p SET status='ASSIGNED', retries=0 WHERE ride_id=%s
SetAssigned(rd, r) ==
    IF rd[r].status = "ABSENT" THEN rd
    ELSE [rd EXCEPT ![r].status = "ASSIGNED", ![r].retries = 0]

\* mutant: the retries write dropped
IncRetries_Skipped(rd, r) == rd

\* UPDATE rides_p SET retries = retries + 1
\* WHERE ride_id = %s AND assigned_driver IS NULL AND status = 'REQUESTED'
IncRetries(rd, r) ==
    IF rd[r].status = "REQUESTED" /\ rd[r].assigned_driver = NULL
    THEN [rd EXCEPT ![r].retries = @ + 1]
    ELSE rd

\* UPDATE rides_p SET status = 'EXPIRED'
\* WHERE ride_id = %s AND assigned_driver IS NULL AND status = 'REQUESTED'
SetExpired(rd, r) ==
    IF rd[r].status = "REQUESTED" /\ rd[r].assigned_driver = NULL
    THEN [rd EXCEPT ![r].status = "EXPIRED"]
    ELSE rd

\* mutant: the EN_ROUTE write guarded by the wrong predecessor status
SetEnRoute_WrongGuard(rd, r) ==
    IF rd[r].status = "REQUESTED"
    THEN [rd EXCEPT ![r].status = "EN_ROUTE", ![r].retries = 0]
    ELSE rd

\* UPDATE rides_p SET status = 'EN_ROUTE', retries = 0 WHERE ride_id = %s
SetEnRoute(rd, r) ==
    IF rd[r].status = "ABSENT" THEN rd
    ELSE [rd EXCEPT ![r].status = "EN_ROUTE", ![r].retries = 0]

\* mutant: the match transaction leaves the driver row as it is
SetMatching_Skipped(dv, d) == dv

\* match_ride.txn: UPDATE drivers SET status='MATCHING' WHERE driver_id=%s
\* (status "ABSENT": no row with that driver_id)
SetMatching(dv, d) == IF dv[d] = "ABSENT" THEN dv ELSE [dv EXCEPT ![d] = "MATCHING"]

\* mutant: the ride update leaves assigned_driver as it is
AssignRide_NoDriver(rd, r, d) ==
    IF rd[r].status = "REQUESTED"
    THEN [rd EXCEPT ![r].status = "ASSIGNED", ![r].retries = 0]
    ELSE rd

\* match_ride.txn: UPDATE rides_p SET assigned_driver=%s, status='ASSIGNED',
\* retries=0 WHERE ride_id=%s AND status='REQUESTED'
AssignRide(rd, r, d) ==
    IF rd[r].status = "REQUESTED"
    THEN [rd EXCEPT ![r] = [status |-> "ASSIGNED", assigned_driver |-> d, retries |-> 0]]
    ELSE rd

\* mutant: the trip insert without its ON CONFLICT clause
InsertTrip_NoConflictClause(tp, r, d) == Append(tp, [ride_id |-> r, driver_id |-> d])

\* complete_ride.txn: INSERT INTO trips_p ... ON CONFLICT (ride_id) DO NOTHING
InsertTrip(tp, r, d) ==
    IF \E i \in 1..Len(tp) : tp[i].ride_id = r
    THEN tp
    ELSE Append(tp, [ride_id |-> r, driver_id |-> d])

\* mutant: the COMPLETED write guarded by the wrong predecessor status
SetCompleted_WrongGuard(rd, r) ==
    IF rd[r].status = "ASSIGNED"
    THEN [rd EXCEPT ![r].status = "COMPLETED", ![r].retries = 0]
    ELSE rd

\* complete_ride.txn: UPDATE rides_p SET status='COMPLETED', retries=0 WHERE ride_id=%s
SetCompleted(rd, r) ==
    IF rd[r].status = "ABSENT" THEN rd
    ELSE [rd EXCEPT ![r].status = "COMPLETED", ![r].retries = 0]

\* mutant: the completing transaction writes MATCHING to the driver row
FreeDriver_KeepsMatching(dv, d) == [dv EXCEPT ![d] = "MATCHING"]

\* mutant: the completing transaction leaves the driver row as it is
FreeDriver_Skipped(dv, d) == dv

\* complete_ride.txn: UPDATE drivers SET status='AVAILABLE' WHERE driver_id=%s
FreeDriver(dv, d) == IF dv[d] = "ABSENT" THEN dv ELSE [dv EXCEPT ![d] = "AVAILABLE"]

\* SADD busy_drivers str(driver_id): the reply is 1 iff the member was added
SaddReply(b, d) == IF Str(d) \in b THEN 0 ELSE 1

\* mutant: SADD adds nothing
Sadd_Noop(b, d) == b

\* SADD busy_drivers str(driver_id): the set after the command
Sadd(b, d) == b \cup {Str(d)}

\* mutant: SREM removes nothing
Srem_Noop(b, d) == b

\* SREM busy_drivers str(driver_id)
Srem(b, d) == b \ {Str(d)}

\* LIMIT n over a randomly ordered result: any n of the rows
LimitSets(S, n) ==
    IF Cardinality(S) <= n THEN {S} ELSE {T \in SUBSET S : Cardinality(T) = n}

\* SELECT driver_id FROM drivers WHERE status = 'AVAILABLE'
\* AND driver_id::text NOT IN (busy_ids) ORDER BY random() LIMIT 50
CandidateSets(dv, bids) ==
    LimitSets({d \in Drivers : dv[d] = "AVAILABLE" /\ Str(d) \notin bids}, CANDIDATE_LIMIT)

\* mutant: the slice keeps no candidate
NearestSets_None(C) == {{}}

\* sorted(candidates, key=distance)[:MAX_NEAREST_DRIVERS]; the positions are
\* arbitrary, so any MAX_NEAREST_DRIVERS of the candidates can be the nearest
NearestSets(C) == LimitSets(C, MAX_NEAREST_DRIVERS)

\* _retry_stats; a key missing from conflicts_by_attempt counts 0
ZeroStats == [total_retries |-> 0, successful_after_retry |-> 0,
              failed_after_max_retries |-> 0,
              conflicts_by_attempt |-> [k \in 1..(MaxRetriesArg + 1) |-> 0]]

\* no run_txn call in progress
TxIdle == [pc |-> "idle", max |-> 0, attempt |-> 0, result |-> "None",
           ncalls |-> 0, fcalls |-> 0, hist |-> <<>>, fval |-> "None",
           committed |-> FALSE, rollbacks |-> 0, stats0 |-> ZeroStats]

\* a worker thread that has not called run_txn yet
ThIdle == [pc |-> "idle", attempt |-> 0, field |-> "none", reg |-> 0,
           code |-> "none", caught |-> 0]

\* no api_metrics call yet; throughput is in hundredths of a ride per minute
NoSample == [completed |-> 0, time |-> 0, throughput |-> 0, branch |-> "none", calls |-> 0]

\* the state before the first replayer() call, with the drivers table dv and
\* the busy set b
InitWith(dv, b) ==
    /\ rides = [r \in Rides |-> AbsentRow]
    /\ drivers = dv
    /\ trips = <<>>
    /\ busy = b
    /\ pc = [r \in Rides |-> "idle"]
    /\ busy_ids = [r \in Rides |-> {}]
    /\ cand = [r \in Rides |-> {}]
    /\ acq = [r \in Rides |-> NULL]
    /\ skipped = [r \in Rides |-> 0]
    /\ drv = [r \in Rides |-> NULL]
    /\ err = [r \in Rides |-> FALSE]
    /\ launched = 0
    /\ nerr = 0
    /\ held = [r \in Rides |-> {}]
    /\ wins = [d \in Drivers |-> IF Str(d) \in b THEN 1 ELSE 0]
    /\ tx = TxIdle
    /\ retry_stats = ZeroStats
    /\ completed_count = 0
    /\ failed_count = 0
    /\ first_end = [r \in Rides |-> <<>>]
    /\ last_completed = "nil"
    /\ last_time = "nil"
    /\ sample = NoSample
    /\ clock = 0
    /\ seed = [w \in Rides |-> w]
    /\ zero_rows = [w \in Rides |-> FALSE]
    /\ th = [w \in Rides |-> ThIdle]

\* init_drivers(n): n drivers, all AVAILABLE, and the busy set cleared
Init == InitWith([d \in Drivers |-> "AVAILABLE"], {})

\* ------------------------------------------------------------- replayer
\* replayer(limit): SELECT ... FROM nyc_clean ORDER BY pickup_datetime LIMIT
\* limit, then one process_ride per seed on the thread pool; the call returns
\* when every worker has ended
StartRunWithin(limit, budget) ==
    /\ launched + limit <= budget
    /\ \A r \in Rides : pc[r] \in {"idle", "done", "killed"}
    /\ launched' = launched + limit
    /\ pc' = [r \in Rides |-> IF r <= limit THEN "persist" ELSE "idle"]
    /\ busy_ids' = [r \in Rides |-> {}]
    /\ cand' = [r \in Rides |-> {}]
    /\ acq' = [r \in Rides |-> NULL]
    /\ skipped' = [r \in Rides |-> 0]
    /\ drv' = [r \in Rides |-> NULL]
    /\ err' = [r \in Rides |-> FALSE]
    /\ held' = [r \in Rides |-> {}]
    /\ retry_stats' = ZeroStats
    /\ completed_count' = 0
    /\ failed_count' = 0
    /\ seed' = [r \in Rides |-> r]
    /\ zero_rows' = [r \in Rides |-> FALSE]
    /\ UNCHANGED <<rides, drivers, trips, busy, nerr, wins, tx, first_end, mvars, th>>

\* replayer(limit), while at most MaxLaunches process_ride calls are followed
StartRun(limit) == StartRunWithin(limit, MaxLaunches)

\* --------------------------------------------------------- process_ride
\* elapsed >= MAX_WAIT_SECONDS, read after a match_ride call that returned None:
\* the wait may have run out at any poll, and has run out once the row counts
\* MaxPolls failed polls
ElapsedChoices(w) == IF rides[seed[w]].retries >= MaxPolls THEN {TRUE} ELSE BOOLEAN

\* match_ride returns None to process_ride
ReturnNone(w) ==
    /\ pc' = [pc EXCEPT ![w] = "retry"]
    /\ busy_ids' = [busy_ids EXCEPT ![w] = {}]
    /\ acq' = [acq EXCEPT ![w] = NULL]
    /\ skipped' = [skipped EXCEPT ![w] = 0]

\* process_ride returns: future.result() returns and the as_completed loop
\* counts the future as completed
Collect ==
    /\ completed_count' = completed_count + 1
    /\ failed_count' = failed_count

\* the terminal triple of a pass over seed r that used driver d (NULL: none):
\* the ride's status, whether it has a trip row, the status of the driver
EndTriple(rd, tp, dv, r, d) ==
    <<rd[r].status,
      \E i \in 1..Len(tp) : tp[i].ride_id = r,
      IF d = NULL THEN "NONE" ELSE dv[d]>>

\* history: the triple with which the first pass over seed w ended
RecordEnd(w, t) ==
    first_end' = IF first_end[seed[w]] = <<>> THEN [first_end EXCEPT ![seed[w]] = t] ELSE first_end

\* the except branch of process_ride: the worker ends
Raise(w) ==
    /\ pc' = [pc EXCEPT ![w] = "done"]
    /\ drv' = [drv EXCEPT ![w] = NULL]
    /\ err' = [err EXCEPT ![w] = TRUE]
    /\ nerr' = nerr + 1
    /\ Collect

\* mutant: the wait time is tested before the first match attempt
Persist_TimeoutFirst(w) ==
    /\ pc[w] = "persist"
    /\ rides' = UpsertRequested(rides, seed[w])
    /\ \E e \in BOOLEAN : pc' = [pc EXCEPT ![w] = IF e THEN "expire" ELSE "match"]
    /\ UNCHANGED <<drivers, trips, busy, busy_ids, cand, acq, skipped, drv, err, launched, nerr, held, wins, tx, retry_stats, rvars, mvars, seed, zero_rows, th>>

\* Insert ride as REQUESTED
Persist(w) ==
    /\ pc[w] = "persist"
    /\ rides' = UpsertRequested(rides, seed[w])
    /\ pc' = [pc EXCEPT ![w] = "match"]
    /\ UNCHANGED <<drivers, trips, busy, busy_ids, cand, acq, skipped, drv, err, launched, nerr, held, wins, tx, retry_stats, rvars, mvars, seed, zero_rows, th>>

\* match_ride: the delay, then busy_ids = get_busy_driver_ids()
MatchStart(w) ==
    /\ pc[w] = "match"
    /\ busy_ids' = [busy_ids EXCEPT ![w] = busy]
    /\ pc' = [pc EXCEPT ![w] = "query"]
    /\ UNCHANGED <<rides, drivers, trips, busy, cand, acq, skipped, drv, err, launched,
                   nerr, held, wins, tx, retry_stats, rvars, mvars, seed, zero_rows, th>>

\* match_ride: the candidate query and the proximity ranking
Query(w) ==
    /\ pc[w] = "query"
    /\ \E C \in CandidateSets(drivers, busy_ids[w]) : \E N \in NearestSets(C) :
         IF N = {}
         THEN /\ ReturnNone(w)
              /\ cand' = cand
         ELSE /\ cand' = [cand EXCEPT ![w] = N]
              /\ pc' = [pc EXCEPT ![w] = "acquire"]
              /\ busy_ids' = [busy_ids EXCEPT ![w] = {}]
              /\ UNCHANGED <<acq, skipped>>
    /\ UNCHANGED <<rides, drivers, trips, busy, drv, err, launched, nerr, held,
                   wins, tx, retry_stats, rvars, mvars, seed, zero_rows, th>>

\* match_ride: the candidate query raises; the except branch returns None
QueryError(w) ==
    /\ pc[w] = "query"
    /\ nerr < MaxErrors
    /\ nerr' = nerr + 1
    /\ ReturnNone(w)
    /\ UNCHANGED <<rides, drivers, trips, busy, cand, drv, err, launched, held,
                   wins, tx, retry_stats, rvars, mvars, seed, zero_rows, th>>

\* mutant: try_acquire_driver ignores SADD's reply
TryAcquireDriver_Always(b, d) == TRUE

\* try_acquire_driver: True iff SADD added the member
TryAcquireDriver(b, d) == SaddReply(b, d) = 1

\* the members an operation added to, or removed from, the busy set
Added(b, b2) == {d \in Drivers : Str(d) \notin b /\ Str(d) \in b2}
Removed(b, b2) == {d \in Drivers : Str(d) \in b /\ Str(d) \notin b2}

\* match_ride: one iteration of the loop over the nearest drivers
TryAcquire(w, d) ==
    /\ pc[w] = "acquire"
    /\ d \in cand[w]
    /\ busy' = Sadd(busy, d)
    /\ IF TryAcquireDriver(busy, d)
       THEN /\ acq' = [acq EXCEPT ![w] = d]
            /\ cand' = [cand EXCEPT ![w] = {}]
            /\ skipped' = [skipped EXCEPT ![w] = 0]
            /\ pc' = [pc EXCEPT ![w] = "txn"]
            /\ held' = [held EXCEPT ![w] = @ \cup {d}]
            /\ wins' = [wins EXCEPT ![d] = @ + 1]
            /\ UNCHANGED <<busy_ids>>
       ELSE /\ cand' = [cand EXCEPT ![w] = @ \ {d}]
            /\ IF cand[w] = {d}
               THEN ReturnNone(w)
               ELSE /\ skipped' = [skipped EXCEPT ![w] = @ + 1]
                    /\ UNCHANGED <<pc, busy_ids, acq>>
            /\ UNCHANGED <<held, wins>>
    /\ UNCHANGED <<rides, drivers, trips, drv, err, launched, nerr, tx, retry_stats, rvars, mvars, seed, zero_rows, th>>

\* mutant: the transaction tests only that the row exists
RowNotAvailable_AnyStatus(dv, d) == dv[d] = "ABSENT"

\* match_ride.txn: SELECT status FROM drivers WHERE driver_id = %s FOR UPDATE;
\* if not row or row[0] != "AVAILABLE"
RowNotAvailable(dv, d) == dv[d] = "ABSENT" \/ dv[d] # "AVAILABLE"

\* match_ride: run_txn(txn) commits
MatchTxn(w) ==
    /\ pc[w] = "txn"
    /\ IF RowNotAvailable(drivers, acq[w])
       THEN /\ pc' = [pc EXCEPT ![w] = "release"]
            /\ UNCHANGED <<rides, drivers, drv, acq, zero_rows>>
       ELSE /\ drivers' = SetMatching(drivers, acq[w])
            /\ rides' = AssignRide(rides, seed[w], acq[w])
            /\ zero_rows' = [zero_rows EXCEPT ![w] = (rides[seed[w]].status # "REQUESTED")]
            /\ drv' = [drv EXCEPT ![w] = acq[w]]
            /\ acq' = [acq EXCEPT ![w] = NULL]
            /\ pc' = [pc EXCEPT ![w] = "assigned"]
    /\ UNCHANGED <<trips, busy, busy_ids, cand, skipped, err, launched, nerr,
                   held, wins, tx, retry_stats, rvars, mvars, seed, th>>

\* match_ride: run_txn(txn) raises
MatchTxnError(w) ==
    /\ pc[w] = "txn"
    /\ nerr < MaxErrors
    /\ nerr' = nerr + 1
    /\ pc' = [pc EXCEPT ![w] = "release"]
    /\ UNCHANGED <<rides, drivers, trips, busy, busy_ids, cand, acq, skipped, drv, err, launched, held, wins, tx, retry_stats, rvars, mvars, seed, zero_rows, th>>

\* mutant: release_driver removes nothing
ReleaseDriver_Skipped(b, d) == b

\* release_driver(driver_id)
ReleaseDriver(b, d) == Srem(b, d)

\* match_ride: release_driver(acquired_driver_id); return None
Release(w) ==
    /\ pc[w] = "release"
    /\ busy' = ReleaseDriver(busy, acq[w])
    /\ held' = [held EXCEPT ![w] = @ \ Removed(busy, busy')]
    /\ wins' = [d \in Drivers |-> IF d \in Removed(busy, busy') THEN 0 ELSE wins[d]]
    /\ ReturnNone(w)
    /\ UNCHANGED <<rides, drivers, trips, cand, drv, err, launched, nerr, tx, retry_stats, rvars, mvars, seed, zero_rows, th>>

\* Track retry counter, then the timeout test
RetryWrite(w) ==
    /\ pc[w] = "retry"
    /\ rides' = IncRetries(rides, seed[w])
    /\ \E e \in ElapsedChoices(w) :
         pc' = [pc EXCEPT ![w] = IF e THEN "expire" ELSE "match"]
    /\ UNCHANGED <<drivers, trips, busy, busy_ids, cand, acq, skipped, drv, err, launched, nerr, held, wins, tx, retry_stats, rvars, mvars, seed, zero_rows, th>>

\* the EXPIRED write; return
ExpireWrite(w) ==
    /\ pc[w] = "expire"
    /\ rides' = SetExpired(rides, seed[w])
    /\ pc' = [pc EXCEPT ![w] = "done"]
    /\ Collect
    /\ RecordEnd(w, EndTriple(rides', trips, drivers, seed[w], NULL))
    /\ UNCHANGED <<drivers, trips, busy, busy_ids, cand, acq, skipped, drv, err, launched, nerr, held, wins, tx, retry_stats, mvars, seed, zero_rows, th>>

\* Mark as ASSIGNED immediately; break
AssignedWrite(w) ==
    /\ pc[w] = "assigned"
    /\ rides' = SetAssigned(rides, seed[w])
    /\ pc' = [pc EXCEPT ![w] = "enroute"]
    /\ UNCHANGED <<drivers, trips, busy, busy_ids, cand, acq, skipped, drv, err, launched, nerr, held, wins, tx, retry_stats, rvars, mvars, seed, zero_rows, th>>

\* Move ride to EN_ROUTE stage, then the simulated trip
EnRouteWrite(w) ==
    /\ pc[w] = "enroute"
    /\ rides' = SetEnRoute(rides, seed[w])
    /\ pc' = [pc EXCEPT ![w] = "complete"]
    /\ UNCHANGED <<drivers, trips, busy, busy_ids, cand, acq, skipped, drv, err, launched, nerr, held, wins, tx, retry_stats, rvars, mvars, seed, zero_rows, th>>

\* complete_ride: run_txn(txn) commits
CompleteTxn(w) ==
    /\ pc[w] = "complete"
    /\ trips' = InsertTrip(trips, seed[w], drv[w])
    /\ rides' = SetCompleted(rides, seed[w])
    /\ drivers' = FreeDriver(drivers, drv[w])
    /\ pc' = [pc EXCEPT ![w] = "unmark"]
    /\ UNCHANGED <<busy, busy_ids, cand, acq, skipped, drv, err, launched, nerr,
                   held, wins, tx, retry_stats, rvars, mvars, seed, zero_rows, th>>

\* complete_ride: unmark_driver_busy(driver_id); process_ride ends
Unmark(w) ==
    /\ pc[w] = "unmark"
    /\ busy' = ReleaseDriver(busy, drv[w])
    /\ held' = [held EXCEPT ![w] = @ \ Removed(busy, busy')]
    /\ wins' = [d \in Drivers |-> IF d \in Removed(busy, busy') THEN 0 ELSE wins[d]]
    /\ drv' = [drv EXCEPT ![w] = NULL]
    /\ pc' = [pc EXCEPT ![w] = "done"]
    /\ Collect
    /\ RecordEnd(w, EndTriple(rides, trips, drivers, seed[w], drv[w]))
    /\ UNCHANGED <<rides, drivers, trips, busy_ids, cand, acq, skipped, err, launched, nerr, tx, retry_stats, mvars, seed, zero_rows, th>>

\* a get_cursor(commit=True) write of process_ride, or complete_ride's run_txn,
\* raises: nothing is committed and the worker ends in its except branch
StoreError(w) ==
    /\ pc[w] \in {"persist", "retry", "expire", "assigned", "enroute", "complete"}
    /\ nerr < MaxErrors
    /\ Raise(w)
    /\ UNCHANGED <<rides, drivers, trips, busy, busy_ids, cand, acq, skipped, launched, held, wins, tx, retry_stats, first_end, mvars, seed, zero_rows, th>>

Next ==
    \/ \E limit \in Rides : StartRun(limit)
    \/ \E w \in Rides : Persist(w)
    \/ \E w \in Rides : MatchStart(w)
    \/ \E w \in Rides : Query(w)
    \/ \E w \in Rides : QueryError(w)
    \/ \E w \in Rides : \E d \in Drivers : TryAcquire(w, d)
    \/ \E w \in Rides : MatchTxn(w)
    \/ \E w \in Rides : MatchTxnError(w)
    \/ \E w \in Rides : Release(w)
    \/ \E w \in Rides : RetryWrite(w)
    \/ \E w \in Rides : ExpireWrite(w)
    \/ \E w \in Rides : AssignedWrite(w)
    \/ \E w \in Rides : EnRouteWrite(w)
    \/ \E w \in Rides : CompleteTxn(w)
    \/ \E w \in Rides : Unmark(w)
    \/ \E w \in Rides : StoreError(w)

Spec == Init /\ [][Next]_vars

\* ------------------------------------------- runs without store errors
\* the members the busy set can hold
BusyStrings == {Str(d) : d \in Drivers}

\* no driver is AVAILABLE: every driver row is MATCHING, whatever the busy
\* set holds
InitNoDrivers ==
    \E b \in SUBSET BusyStrings : InitWith([d \in Drivers |-> "MATCHING"], b)

\* the steps of worker w when no candidate is ever found
WorkerNoDrivers(w) ==
    \/ Persist(w)
    \/ MatchStart(w)
    \/ Query(w)
    \/ RetryWrite(w)
    \/ ExpireWrite(w)

NextNoDrivers ==
    \/ \E limit \in Rides : StartRun(limit)
    \/ \E w \in Rides : Persist(w)
    \/ \E w \in Rides : MatchStart(w)
    \/ \E w \in Rides : Query(w)
    \/ \E w \in Rides : RetryWrite(w)
    \/ \E w \in Rides : ExpireWrite(w)

\* every worker thread of the pool keeps being scheduled
SpecNoDrivers ==
    InitNoDrivers /\ [][NextNoDrivers]_vars /\ \A w \in Rides : WF_vars(WorkerNoDrivers(w))

\* any driver pool: each driver row AVAILABLE or MATCHING, any busy set
InitReplay ==
    \E dv \in [Drivers -> {"AVAILABLE", "MATCHING"}] : \E b \in SUBSET BusyStrings :
        InitWith(dv, b)

\* replayer(1) called again and again: the first seed processed serially
NextReplay ==
    \/ StartRun(1)
    \/ \E w \in Rides : Persist(w)
    \/ \E w \in Rides : MatchStart(w)
    \/ \E w \in Rides : Query(w)
    \/ \E w \in Rides : \E d \in Drivers : TryAcquire(w, d)
    \/ \E w \in Rides : MatchTxn(w)
    \/ \E w \in Rides : RetryWrite(w)
    \/ \E w \in Rides : ExpireWrite(w)
    \/ \E w \in Rides : AssignedWrite(w)
    \/ \E w \in Rides : EnRouteWrite(w)
    \/ \E w \in Rides : CompleteTxn(w)
    \/ \E w \in Rides : Unmark(w)

SpecReplay == InitReplay /\ [][NextReplay]_vars

\* run_demo.main: the replay runs on a daemon thread; on KeyboardInterrupt main
\* returns and the program ends.  The workers have no cancellation point and
\* no handler: a worker still running when the process goes away stops where
\* it is.
Interrupt ==
    /\ \E w \in Rides : pc[w] \notin {"idle", "done", "killed"}
    /\ pc' = [w \in Rides |-> IF pc[w] \in {"idle", "done"} THEN pc[w] ELSE "killed"]
    /\ UNCHANGED <<rides, drivers, trips, busy, busy_ids, cand, acq, skipped, drv, err,
                   launched, nerr, held, wins, tx, retry_stats, rvars, mvars, seed, zero_rows, th>>

\* replays that the caller may interrupt, each started as the program starts
NextCrash ==
    \/ \E limit \in Rides : StartRunWithin(limit, MaxCrashLaunches)
    \/ \E w \in Rides : Persist(w)
    \/ \E w \in Rides : MatchStart(w)
    \/ \E w \in Rides : Query(w)
    \/ \E w \in Rides : \E d \in Drivers : TryAcquire(w, d)
    \/ \E w \in Rides : MatchTxn(w)
    \/ \E w \in Rides : RetryWrite(w)
    \/ \E w \in Rides : ExpireWrite(w)
    \/ \E w \in Rides : AssignedWrite(w)
    \/ \E w \in Rides : EnRouteWrite(w)
    \/ \E w \in Rides : CompleteTxn(w)
    \/ \E w \in Rides : Unmark(w)
    \/ Interrupt

SpecCrash == Init /\ [][NextCrash]_vars

\* the steps of worker w when every match_ride call finds a driver
WorkerEnough(w) ==
    \/ Persist(w)
    \/ MatchStart(w)
    \/ Query(w)
    \/ \E d \in Drivers : TryAcquire(w, d)
    \/ MatchTxn(w)
    \/ AssignedWrite(w)
    \/ EnRouteWrite(w)
    \/ CompleteTxn(w)
    \/ Unmark(w)

NextEnough ==
    \/ \E limit \in Rides : StartRun(limit)
    \/ \E w \in Rides : Persist(w)
    \/ \E w \in Rides : MatchStart(w)
    \/ \E w \in Rides : Query(w)
    \/ \E w \in Rides : \E d \in Drivers : TryAcquire(w, d)
    \/ \E w \in Rides : MatchTxn(w)
    \/ \E w \in Rides : AssignedWrite(w)
    \/ \E w \in Rides : EnRouteWrite(w)
    \/ \E w \in Rides : CompleteTxn(w)
    \/ \E w \in Rides : Unmark(w)

\* all drivers AVAILABLE, an empty busy set, as many drivers as seeds, no
\* store error, every worker thread keeps being scheduled
SpecEnough ==
    Init /\ [][NextEnough]_vars /\ \A w \in Rides : WF_vars(WorkerEnough(w))


\* ------------------------------------------------------------ api_metrics
\* redis_client.set(key, n) stores the decimal text of n
RedisSet(n) == ToString(n)

\* int(raw), float(raw): the number a stored text denotes
RedisNumber(raw) == CHOOSE n \in 0..(MaxCompleted + MaxClock) : ToString(n) = raw

\* round(a / b) to the nearest integer, a tie going to the even one
RoundDiv(a, b) ==
    LET q == a \div b
        r == a % b
    IN IF 2 * r > b \/ (2 * r = b /\ q % 2 = 1) THEN q + 1 ELSE q

\* round(max(delta_rides / max(elapsed, 0.001) * 60, 0.0), 2), in hundredths
Throughput(delta_rides, elapsed) ==
    IF delta_rides <= 0 THEN 0
    ELSE IF elapsed <= 0 THEN delta_rides * 6000000
    ELSE RoundDiv(delta_rides * 6000, elapsed)

\* mutant: the truncation guard never fires
CountDecreased_Never(completed, last) == FALSE

\* if completed < last_completed
CountDecreased(completed, last) == completed < last

\* mutant: the baseline advances on every sample
Advance_Always(delta_rides) == TRUE

\* if delta_rides > 0
Advance(delta_rides) == delta_rides > 0

\* GET /api/metrics while rides_p holds `completed` COMPLETED rows
ApiMetrics(completed) ==
    /\ sample.calls < MaxSamples
    /\ IF last_completed = "nil" \/ last_time = "nil"
       THEN /\ sample' = [completed |-> completed, time |-> clock, throughput |-> 0,
                          branch |-> "first", calls |-> sample.calls + 1]
            /\ last_completed' = RedisSet(completed)
            /\ last_time' = RedisSet(clock)
       ELSE LET last == RedisNumber(last_completed)
                delta_rides == completed - last
                elapsed == clock - RedisNumber(last_time)
            IN IF CountDecreased(completed, last)
               THEN /\ sample' = [completed |-> completed, time |-> clock, throughput |-> 0,
                                  branch |-> "reset", calls |-> sample.calls + 1]
                    /\ last_completed' = RedisSet(completed)
                    /\ last_time' = RedisSet(clock)
               ELSE /\ sample' = [completed |-> completed, time |-> clock,
                                  throughput |-> Throughput(delta_rides, elapsed),
                                  branch |-> IF Advance(delta_rides) THEN "advance" ELSE "hold",
                                  calls |-> sample.calls + 1]
                    /\ IF Advance(delta_rides)
                       THEN /\ last_completed' = RedisSet(completed)
                            /\ last_time' = RedisSet(clock)
                       ELSE UNCHANGED <<last_completed, last_time>>
    /\ UNCHANGED <<rides, drivers, trips, busy, pc, busy_ids, cand, acq, skipped, drv, err,
                   launched, nerr, held, wins, tx, retry_stats, rvars, clock, seed, zero_rows, th>>

\* a second passes
Tick ==
    /\ clock < MaxClock
    /\ clock' = clock + 1
    /\ UNCHANGED <<rides, drivers, trips, busy, pc, busy_ids, cand, acq, skipped, drv, err,
                   launched, nerr, held, wins, tx, retry_stats, rvars, last_completed,
                   last_time, sample, seed, zero_rows, th>>

\* the dashboard polls the endpoint while rides complete and the table may be
\* truncated between two polls
NextMetrics ==
    \/ \E completed \in 0..MaxCompleted : ApiMetrics(completed)
    \/ Tick

SpecMetrics == Init /\ [][NextMetrics]_vars


\* ---------------------------------------------------------------- run_txn
\* tx.pc: "idle" no call yet, "loop" at the head of the for loop, "returned",
\* "raised".  tx.hist lists the outcome of each attempt of the call, tx.fcalls
\* counts the invocations of fn, tx.fval is what the last finished invocation
\* returned, tx.committed says that conn.commit() succeeded, tx.rollbacks counts
\* conn.rollback() calls and tx.stats0 is _retry_stats as the call found it.
MaxRetriesArgs == (0 - 1)..MaxRetriesArg

\* attempt in range(max_retries)
InRange(attempt, m) == attempt < m

\* mutant: the retry test without the attempt cap
Retryable_NoCap(code, attempt, m) == code = "40001"

\* code == "40001" and attempt < max_retries - 1
Retryable(code, attempt, m) == code = "40001" /\ attempt < m - 1

\* mutant: every commit counts as a success after retry
CountSuccess_Always(st, attempt) == [st EXCEPT !.successful_after_retry = @ + 1]

\* if attempt > 0: _retry_stats["successful_after_retry"] += 1
CountSuccess(st, attempt) ==
    IF attempt > 0
    THEN [st EXCEPT !.successful_after_retry = @ + 1]
    ELSE st

\* _retry_stats["total_retries"] += 1; conflicts_by_attempt[str(attempt + 1)] += 1
CountConflict(st, attempt) ==
    [st EXCEPT !.total_retries = @ + 1,
               !.conflicts_by_attempt[attempt + 1] = @ + 1]

\* _retry_stats["failed_after_max_retries"] += 1
CountFailure(st) == [st EXCEPT !.failed_after_max_retries = @ + 1]

\* run_txn(fn, max_retries) is called
TxnCall(m) ==
    /\ tx.pc \in {"idle", "returned", "raised"}
    /\ tx.ncalls < MaxCalls
    /\ tx' = [pc |-> "loop", max |-> m, attempt |-> 0, result |-> "None",
              ncalls |-> tx.ncalls + 1, fcalls |-> 0, hist |-> <<>>,
              fval |-> "None", committed |-> FALSE, rollbacks |-> 0,
              stats0 |-> retry_stats]
    /\ UNCHANGED <<wvars, retry_stats, th>>

\* the for loop ends without having returned or raised: run_txn returns None
TxnFallThrough ==
    /\ tx.pc = "loop"
    /\ ~InRange(tx.attempt, tx.max)
    /\ tx' = [tx EXCEPT !.pc = "returned", !.result = "None"]
    /\ UNCHANGED <<wvars, retry_stats, th>>

\* result = fn(cur); conn.commit(); return result
TxnCommit(v) ==
    /\ tx.pc = "loop"
    /\ InRange(tx.attempt, tx.max)
    /\ retry_stats' = CountSuccess(retry_stats, tx.attempt)
    /\ tx' = [tx EXCEPT !.pc = "returned", !.result = v, !.fval = v,
                        !.fcalls = @ + 1, !.committed = TRUE,
                        !.hist = Append(@, "commit")]
    /\ UNCHANGED <<wvars, th>>

\* a psycopg2 Error with pgcode code, raised by set_session (at = "session"),
\* by fn (at = "fn") or by conn.commit() after fn returned v (at = "commit")
TxnStoreError(code, at, v) ==
    /\ tx.pc = "loop"
    /\ InRange(tx.attempt, tx.max)
    /\ retry_stats' =
         IF Retryable(code, tx.attempt, tx.max)
         THEN CountConflict(retry_stats, tx.attempt)
         ELSE CountFailure(CountConflict(retry_stats, tx.attempt))
    /\ tx' = [tx EXCEPT
                !.pc = IF Retryable(code, tx.attempt, tx.max) THEN "loop" ELSE "raised",
                !.attempt = IF Retryable(code, tx.attempt, tx.max) THEN @ + 1 ELSE @,
                !.fcalls = IF at = "session" THEN @ ELSE @ + 1,
                !.fval = IF at = "commit" THEN v ELSE @,
                !.rollbacks = @ + 1,
                !.hist = Append(@, code)]
    /\ UNCHANGED <<wvars, th>>

\* fn raises an exception that is no psycopg2 Error: it leaves run_txn through
\* the finally clause alone
TxnOtherException ==
    /\ tx.pc = "loop"
    /\ InRange(tx.attempt, tx.max)
    /\ tx' = [tx EXCEPT !.pc = "raised", !.fcalls = @ + 1,
                        !.hist = Append(@, "exception")]
    /\ UNCHANGED <<wvars, retry_stats, th>>

\* reset_retry_stats(), between two calls
ResetRetryStats ==
    /\ tx.pc \in {"returned", "raised"}
    /\ retry_stats # ZeroStats
    /\ retry_stats' = ZeroStats
    /\ tx' = [TxIdle EXCEPT !.ncalls = tx.ncalls]
    /\ UNCHANGED <<wvars, th>>

NextTxn ==
    \/ \E m \in MaxRetriesArgs : TxnCall(m)
    \/ TxnFallThrough
    \/ \E v \in Values : TxnCommit(v)
    \/ \E code \in {"40001", "other"} : \E at \in {"session", "fn"} :
         TxnStoreError(code, at, "None")
    \/ \E code \in {"40001", "other"} : \E v \in Values :
         TxnStoreError(code, "commit", v)
    \/ TxnOtherException
    \/ ResetRetryStats

SpecTxn == Init /\ [][NextTxn]_vars


\* ------------------------------------------------------------ properties
Active(r) == rides[r].status \in {"ASSIGNED", "EN_ROUTE"}
TripsOf(r) == {i \in 1..Len(trips) : trips[i].ride_id = r}

\* C1: in every reachable state no driver is the assigned_driver of two
\* different rides whose status is ASSIGNED or EN_ROUTE.
C1_NoDoubleAssignment ==
    \A r1, r2 \in Rides :
        r1 # r2 /\ Active(r1) /\ Active(r2)
            => rides[r1].assigned_driver # rides[r2].assigned_driver

\* a ride holds a driver while another worker still has that driver among the
\* candidates it is about to try
C1_Witness ==
    \E r1, r2 \in Rides :
        /\ r1 # r2
        /\ Active(r1)
        /\ pc[r2] = "acquire"
        /\ rides[r1].assigned_driver \in cand[r2]

\* the edges of the ride state machine
LegalSteps == {<<"REQUESTED", "ASSIGNED">>, <<"ASSIGNED", "EN_ROUTE">>,
               <<"EN_ROUTE", "COMPLETED">>, <<"REQUESTED", "EXPIRED">>}

\* C2: from the persist-REQUESTED write on, every change of a ride row's
\* status follows an edge REQUESTED -> ASSIGNED -> EN_ROUTE -> COMPLETED or
\* REQUESTED -> EXPIRED, so the values the row takes form a prefix of one of
\* the two paths: nothing is skipped and the status never moves backwards.
C2_StatusPath ==
    [][\A r \in Rides :
          rides'[r].status # rides[r].status =>
              \/ pc[r] = "persist" /\ rides'[r].status = "REQUESTED"
              \/ <<rides[r].status, rides'[r].status>> \in LegalSteps]_vars

\* one worker has ended with its ride COMPLETED, another with its ride EXPIRED
C2_Witness ==
    \E r1, r2 \in Rides :
        /\ pc[r1] = "done" /\ rides[r1].status = "COMPLETED"
        /\ pc[r2] = "done" /\ rides[r2].status = "EXPIRED"

\* C3: in every reachable state of every ride row, assigned_driver is
\* non-null if and only if status is ASSIGNED, EN_ROUTE or COMPLETED.
C3_AssignedDriverIffStatus ==
    \A r \in Rides :
        rides[r].status # "ABSENT" =>
            (rides[r].assigned_driver # NULL
                <=> rides[r].status \in {"ASSIGNED", "EN_ROUTE", "COMPLETED"})

\* C4: every COMPLETED ride has exactly one trip row, no ride_id ever has two
\* trip rows (completing a ride again adds none), and a trip row is inserted
\* only by a step that sets its ride to COMPLETED.
C4_OneTripPerCompletedRide ==
    /\ [](\A r \in Rides :
            /\ Cardinality(TripsOf(r)) <= 1
            /\ rides[r].status = "COMPLETED" => Cardinality(TripsOf(r)) = 1)
    /\ [][trips' # trips =>
            /\ Len(trips') = Len(trips) + 1
            /\ SubSeq(trips', 1, Len(trips)) = trips
            /\ rides[trips'[Len(trips')].ride_id].status # "COMPLETED"
            /\ rides'[trips'[Len(trips')].ride_id].status = "COMPLETED"]_vars

\* a ride has been completed a second time, by another driver than the one
\* in its trip row
C4_Witness ==
    \E r \in Rides :
        /\ pc[r] = "unmark"
        /\ rides[r].status = "COMPLETED"
        /\ \E i \in TripsOf(r) : trips[i].driver_id # drv[r]

\* C5: a worker that has ended with its ride COMPLETED or EXPIRED holds no
\* busy-set entry it acquired; when all workers have ended that way, none of
\* them has left an entry behind.
C5_ReleasedAtEnd ==
    \A w \in Rides :
        pc[w] = "done" /\ rides[w].status \in {"COMPLETED", "EXPIRED"}
            => held[w] = {}

\* both workers of a run have ended, one COMPLETED after holding a driver
\* and one EXPIRED, and the busy set is empty
C5_Witness ==
    /\ \A w \in Rides : pc[w] = "done" /\ ~err[w]
    /\ \E w \in Rides : rides[w].status = "COMPLETED"
    /\ \E w \in Rides : rides[w].status = "EXPIRED"
    /\ busy = {}

\* the two windows in which the busy set and the store may differ on d
InMatchWindow(d) == \E w \in Rides : pc[w] \in {"txn", "release"} /\ acq[w] = d
InCompleteWindow(d) == \E w \in Rides : pc[w] = "unmark" /\ drv[w] = d

\* C6: a driver is in the busy set iff its store status is not AVAILABLE,
\* except between a worker's successful try_acquire and the commit or release
\* ending its match attempt, and between the completing commit and its release.
C6_BusyIffNotAvailable ==
    \A d \in Drivers :
        (Str(d) \in busy) # (drivers[d] # "AVAILABLE")
            => InMatchWindow(d) \/ InCompleteWindow(d)

\* one worker is in the window after its completing commit while another is
\* in the window after its try_acquire
C6_Witness ==
    \E d1, d2 \in Drivers :
        /\ InCompleteWindow(d1) /\ drivers[d1] = "AVAILABLE" /\ Str(d1) \in busy
        /\ InMatchWindow(d2) /\ drivers[d2] = "AVAILABLE" /\ Str(d2) \in busy

\* C10: try_acquire_driver(d) returns true exactly when d was not in the busy
\* set, and leaves d in it; between two releases of d at most one call has
\* returned true, and exactly one whenever d is in the set.
C10_TryAcquireExclusive ==
    /\ [](\A d \in Drivers :
            /\ wins[d] <= 1
            /\ Str(d) \in busy <=> wins[d] = 1)
    /\ [][\A w \in Rides :
            pc[w] = "acquire" /\ cand'[w] # cand[w] =>
                IF acq'[w] # NULL
                THEN Str(acq'[w]) \notin busy /\ Str(acq'[w]) \in busy'
                ELSE \A d \in cand[w] \ cand'[w] :
                         Str(d) \in busy /\ Str(d) \in busy']_vars

\* a worker has lost a try_acquire to the holder of a driver and goes on to
\* its next candidate
C10_Witness ==
    \E w1, w2 \in Rides :
        /\ w1 # w2
        /\ pc[w1] = "txn"
        /\ pc[w2] = "acquire" /\ skipped[w2] = 1
        /\ acq[w1] \notin cand[w2]


Last(q) == q[Len(q)]
StoreErrors(q) == {i \in 1..Len(q) : q[i] \in {"40001", "other"}}

\* C7: for max_retries >= 1, run_txn invokes fn at most max_retries times and
\* every step of the loop ends the call or moves to the next attempt, which it
\* does only after a 40001 conflict and while attempts remain; a store error
\* that is not retryable, or a conflict on the last allowed attempt, has been
\* rolled back and raised.
C7_BoundedRetry ==
    /\ [](tx.max >= 1 =>
            /\ tx.fcalls <= tx.max
            /\ Len(tx.hist) <= tx.max
            /\ tx.rollbacks = Cardinality(StoreErrors(tx.hist))
            /\ \A i \in 1..(Len(tx.hist) - 1) : tx.hist[i] = "40001"
            /\ (tx.hist # <<>> /\ Last(tx.hist) = "other") => tx.pc = "raised"
            /\ (tx.hist # <<>> /\ Last(tx.hist) = "40001" /\ Len(tx.hist) = tx.max)
                   => tx.pc = "raised")
    /\ [][tx.pc = "loop" /\ tx.max >= 1 /\ tx' # tx =>
            \/ tx'.pc \in {"returned", "raised"}
            \/ /\ tx'.pc = "loop"
               /\ tx'.attempt = tx.attempt + 1
               /\ tx'.attempt < tx.max
               /\ Last(tx'.hist) = "40001"]_vars

\* with the default max_retries = 5, the fifth attempt conflicted and the call
\* raised
C7_Witness ==
    /\ tx.pc = "raised"
    /\ tx.max = 5
    /\ Len(tx.hist) = 5
    /\ Last(tx.hist) = "40001"

\* C8: for every value of max_retries, a run_txn call that has returned
\* normally has committed an invocation of fn and returns that invocation's
\* value.
C8_ReturnsOnlyCommitted ==
    tx.pc = "returned" => tx.committed /\ tx.result = tx.fval

\* C9: a call whose first k >= 1 attempts hit the retryable conflict and whose
\* next attempt commits has added k to total_retries and 1 to
\* successful_after_retry and left failed_after_max_retries alone; a call that
\* commits on its first attempt has changed no counter.
C9_RetryCounters ==
    LET k == Len(tx.hist) - 1 IN
    (/\ tx.pc = "returned"
     /\ tx.committed
     /\ \A i \in 1..k : tx.hist[i] = "40001")
        => IF k >= 1
           THEN /\ retry_stats.total_retries = tx.stats0.total_retries + k
                /\ retry_stats.successful_after_retry =
                       tx.stats0.successful_after_retry + 1
                /\ retry_stats.failed_after_max_retries =
                       tx.stats0.failed_after_max_retries
           ELSE retry_stats = tx.stats0

\* a second call, made with counters already set, commits after two conflicts
C9_Witness ==
    /\ tx.pc = "returned"
    /\ tx.committed
    /\ Len(tx.hist) = 3
    /\ tx.stats0.total_retries > 0


\* C11: a worker whose wait has reached MAX_WAIT_SECONDS without a match and
\* that takes the timeout branch leaves its ride EXPIRED, and no write moves an
\* EXPIRED row to ASSIGNED, EN_ROUTE or COMPLETED.
C11_ExpiredAfterTimeout ==
    /\ [][\A w \in Rides :
            pc[w] = "expire" /\ pc'[w] = "done" /\ ~err'[w]
                => rides'[w].status = "EXPIRED"]_vars
    /\ [][\A r \in Rides :
            rides[r].status = "EXPIRED"
                => rides'[r].status \notin {"ASSIGNED", "EN_ROUTE", "COMPLETED"}]_vars

\* replayer() has returned: it had seeds and every worker has ended
Returned == (\E w \in Rides : pc[w] # "idle") /\ (\A w \in Rides : pc[w] \in {"idle", "done"})

\* C17: when replayer returns, completed + failed is the number of seeds read
\* and failed is the number of workers that ended with an error.
C17_FailedCount ==
    Returned =>
        /\ completed_count + failed_count = Cardinality({w \in Rides : pc[w] = "done"})
        /\ failed_count = Cardinality({w \in Rides : err[w]})

\* C20: a match_ride call that returns None leaves no busy-set entry it added,
\* a call that returns driver d leaves d in the busy set with store status
\* MATCHING, and a call enters its acquire loop holding nothing and leaves it
\* at its first success, so it adds at most one entry.
C20_MatchRideLeaves ==
    /\ [](\A w \in Rides :
            /\ Cardinality(held[w]) <= 1
            /\ pc[w] \in {"match", "query", "acquire"} => held[w] = {})
    /\ [][\A w \in Rides :
            /\ (pc[w] # "retry" /\ pc'[w] = "retry") => held'[w] = {}
            /\ (pc[w] # "assigned" /\ pc'[w] = "assigned") =>
                   /\ held'[w] = {drv'[w]}
                   /\ Str(drv'[w]) \in busy'
                   /\ drivers'[drv'[w]] = "MATCHING"]_vars

\* one call is about to release the driver it acquired after its transaction
\* raised, while another call has returned its driver
C20_Witness ==
    \E w1, w2 \in Rides :
        /\ pc[w1] = "release" /\ held[w1] = {acq[w1]}
        /\ pc[w2] = "assigned" /\ Str(drv[w2]) \in busy


\* C12: with no ride rows at the start and no driver ever AVAILABLE, every
\* worker eventually ends, and ends with its ride EXPIRED, assigned_driver
\* null and retries > 0; none ends with an error.
C12_AllExpire ==
    /\ [](\A w \in Rides :
            pc[w] = "done" =>
                /\ ~err[w]
                /\ rides[w].status = "EXPIRED"
                /\ rides[w].assigned_driver = NULL
                /\ rides[w].retries > 0)
    /\ \A w \in Rides : (pc[w] # "idle") ~> (pc[w] = "done")

\* every seed has been processed and has expired while the busy set held a
\* stale entry
C12_Witness ==
    /\ \A w \in Rides : pc[w] = "done" /\ rides[w].status = "EXPIRED" /\ rides[w].retries > 0
    /\ busy # {}

C14_ReplaySameTriple ==
    [][\A w \in Rides :
          pc[w] # "done" /\ pc'[w] = "done" /\ first_end[w] # <<>>
              => EndTriple(rides', trips', drivers', w, drv[w]) = first_end[w]]_vars

\* the seed has been completed a second time, by another driver than the one
\* of its trip row
C14_Witness ==
    \E w \in Rides :
        /\ pc[w] = "done"
        /\ launched >= 2
        /\ first_end[w] = <<"COMPLETED", TRUE, "AVAILABLE">>
        /\ \E i \in TripsOf(w) : trips[i].driver_id # rides[w].assigned_driver


\* the drivers whose store status is not AVAILABLE, as busy-set members
NotAvailableStrings(dv) ==
    {Str(d) : d \in {x \in Drivers : dv[x] \notin {"AVAILABLE", "ABSENT"}}}

\* C18: when a run starts, before any worker calls match_ride, the busy set
\* holds exactly the drivers whose store status is not AVAILABLE.
C18_ResetAtStart ==
    [][(\E w \in Rides : pc[w] # "persist" /\ pc'[w] = "persist")
          => busy' = NotAvailableStrings(drivers')]_vars

SampledWithBaseline ==
    /\ sample'.calls # sample.calls
    /\ last_completed # "nil"
    /\ last_time # "nil"

\* C15: a metrics sample whose COMPLETED count is lower than the stored
\* baseline count reports throughput 0 and stores (current count, current
\* time) as the baseline.
C15_ResetOnDecrease ==
    [][SampledWithBaseline /\ sample'.completed < RedisNumber(last_completed)
          => /\ sample'.throughput = 0
             /\ last_completed' = RedisSet(sample'.completed)
             /\ last_time' = RedisSet(sample'.time)
             /\ sample'.time = clock]_vars

\* a sample taken after the table was emptied has reset the baseline to
\* (0, now)
C15_Witness ==
    /\ sample.branch = "reset"
    /\ sample.completed = 0
    /\ last_completed = "0"
    /\ clock > 0
    /\ last_time = RedisSet(clock)

\* C16: a sample that finds a baseline and a count equal to the baseline count
\* leaves both baseline keys as they are; the keys change only in a sample
\* that found no baseline, a greater count or a smaller count.
C16_BaselineFrame ==
    /\ [][SampledWithBaseline /\ sample'.completed = RedisNumber(last_completed)
            => UNCHANGED <<last_completed, last_time>>]_vars
    /\ [][<<last_completed, last_time>>' # <<last_completed, last_time>>
            => /\ sample'.calls # sample.calls
               /\ \/ last_completed = "nil"
                  \/ last_time = "nil"
                  \/ sample'.completed # RedisNumber(last_completed)]_vars

\* a later sample with the same count has kept the older timestamp
C16_Witness ==
    /\ sample.branch = "hold"
    /\ last_time # "nil"
    /\ sample.time > RedisNumber(last_time)
    /\ last_completed = RedisSet(sample.completed)

\* ---------------------------------------------------------------- C30
\* C30: from a start in which every driver that is not AVAILABLE is in the
\* busy set, every reachable state keeps every driver that is not AVAILABLE in
\* the busy set, and a driver that match_ride has just acquired is AVAILABLE
\* when the transaction re-reads it: the not-AVAILABLE branch is never taken
C30_NonAvailableInBusy ==
    /\ NotAvailableStrings(drivers) \subseteq busy
    /\ \A w \in Rides : pc[w] = "txn" => drivers[acq[w]] = "AVAILABLE"

\* a later run started with a MATCHING driver left in the busy set, and a
\* worker of it has acquired another driver and is about to run the transaction
C30_Witness ==
    \E w \in Rides : \E d \in Drivers :
        /\ pc[w] = "txn"
        /\ launched >= 2
        /\ d # acq[w]
        /\ drivers[d] = "MATCHING"
        /\ Str(d) \in busy

\* ---------------------------------------------------------------- C24
\* C24: when the write that sets the ride to ASSIGNED fails after match_ride
\* returned a driver, the worker releases that driver from the busy set and
\* goes on with the match loop; it does not end while holding the driver
C24_AssignedFailureReleases ==
    [][\A w \in Rides :
          (pc[w] = "assigned" /\ ~err[w] /\ err'[w]) =>
              /\ Str(drv[w]) \notin busy'
              /\ pc'[w] # "done"]_vars

\* ---------------------------------------------------------------- C26
\* C26: a failed completing transaction is run again until it commits, so no
\* worker ends with its ride left EN_ROUTE
C26_CompletionRetried ==
    \A w \in Rides : pc[w] = "done" => rides[w].status # "EN_ROUTE"

\* ---------------------------------------------------------------- C27
\* C27: a single store failure on one of the worker's ride writes (persist
\* REQUESTED, set ASSIGNED, increment retries, set EXPIRED, set EN_ROUTE) is
\* absorbed by a retry of the write: the worker does not end with an error
C27_WriteConflictAbsorbed ==
    [][\A w \in Rides :
          pc[w] \in {"persist", "assigned", "retry", "expire", "enroute"} =>
              ~(~err[w] /\ err'[w])]_vars

\* ---------------------------------------------------------------- C29
\* C29: after the persist-REQUESTED step the ride row has status REQUESTED and
\* retries = 0, whether the row was inserted or already existed
C29_PersistResets ==
    [][\A w \in Rides :
          (pc[w] = "persist" /\ pc'[w] = "match") =>
              /\ rides'[w].status = "REQUESTED"
              /\ rides'[w].retries = 0]_vars

StartOverlap ==
    /\ launched = 0
    /\ \A w \in Rides : pc[w] = "idle"
    /\ launched' = NumRides
    /\ seed' = [w \in Rides |-> 1]
    /\ pc' = [w \in Rides |-> "persist"]
    /\ zero_rows' = [w \in Rides |-> FALSE]
    /\ busy_ids' = [w \in Rides |-> {}]
    /\ cand' = [w \in Rides |-> {}]
    /\ acq' = [w \in Rides |-> NULL]
    /\ skipped' = [w \in Rides |-> 0]
    /\ drv' = [w \in Rides |-> NULL]
    /\ err' = [w \in Rides |-> FALSE]
    /\ held' = [w \in Rides |-> {}]
    /\ retry_stats' = ZeroStats
    /\ completed_count' = 0
    /\ failed_count' = 0
    /\ UNCHANGED <<rides, drivers, trips, busy, nerr, wins, tx, first_end, mvars, th>>

\* the workers of the overlapping calls, over any driver pool and without
\* store errors
NextOverlap ==
    \/ StartOverlap
    \/ \E w \in Rides : Persist(w)
    \/ \E w \in Rides : MatchStart(w)
    \/ \E w \in Rides : Query(w)
    \/ \E w \in Rides : \E d \in Drivers : TryAcquire(w, d)
    \/ \E w \in Rides : MatchTxn(w)
    \/ \E w \in Rides : RetryWrite(w)
    \/ \E w \in Rides : ExpireWrite(w)
    \/ \E w \in Rides : AssignedWrite(w)
    \/ \E w \in Rides : EnRouteWrite(w)
    \/ \E w \in Rides : CompleteTxn(w)
    \/ \E w \in Rides : Unmark(w)

SpecOverlap == InitReplay /\ [][NextOverlap]_vars

\* ---------------------------------------------------------------- C22
\* C22: a worker whose match transaction found the ride row no longer
\* REQUESTED (its ride update changed zero rows) treats the match as a lost
\* race: none of its later steps moves the ride to ASSIGNED, EN_ROUTE or
\* COMPLETED
C22_ZeroRowsIsLostRace ==
    [][\A w \in Rides :
          (zero_rows[w] /\ pc'[w] # pc[w]) =>
              (rides'[seed[w]].status \in {"ASSIGNED", "EN_ROUTE", "COMPLETED"}
                   => rides'[seed[w]].status = rides[seed[w]].status)]_vars

\* ---------------------------------------------------------------- C23
\* C23: each ride write of the worker after the persist (ASSIGNED, EN_ROUTE,
\* COMPLETED, EXPIRED, the retries increment) changes the row only when the
\* row has the predecessor status of that transition
C23_WritesGuarded ==
    [][\A w \in Rides :
          (pc'[w] # pc[w] /\ rides'[seed[w]] # rides[seed[w]]) =>
              \/ pc[w] \in {"persist", "txn"}
              \/ pc[w] \in {"retry", "expire"} /\ rides[seed[w]].status = "REQUESTED"
              \/ pc[w] = "assigned" /\ rides[seed[w]].status = "REQUESTED"
              \/ pc[w] = "enroute" /\ rides[seed[w]].status = "ASSIGNED"
              \/ pc[w] = "complete" /\ rides[seed[w]].status = "EN_ROUTE"]_vars

\* ------------------------------------------------- the busy set unavailable
\* match_ride: r.scard(BUSY_KEY) at its start, or r.sadd in
\* try_acquire_driver, raises (redis.ConnectionError).  Neither call is inside
\* a try of match_ride: the exception leaves match_ride and process_ride ends
\* in its except branch
CacheErrorRaised(w) ==
    /\ pc[w] \in {"match", "acquire"}
    /\ nerr < MaxErrors
    /\ Raise(w)
    /\ UNCHANGED <<rides, drivers, trips, busy, busy_ids, cand, acq, skipped, launched,
                   held, wins, tx, retry_stats, first_end, mvars, seed, zero_rows, th>>

\* match_ride: r.smembers in get_busy_driver_ids raises inside the try around
\* the candidate query; the except branch returns None
CacheErrorCaught(w) ==
    /\ pc[w] = "match"
    /\ nerr < MaxErrors
    /\ nerr' = nerr + 1
    /\ ReturnNone(w)
    /\ UNCHANGED <<rides, drivers, trips, busy, cand, drv, err, launched, held,
                   wins, tx, retry_stats, rvars, mvars, seed, zero_rows, th>>

\* the replayer runs while Redis may fail; the store does not
NextCacheDown ==
    \/ \E limit \in Rides : StartRun(limit)
    \/ \E w \in Rides : Persist(w)
    \/ \E w \in Rides : MatchStart(w)
    \/ \E w \in Rides : Query(w)
    \/ \E w \in Rides : \E d \in Drivers : TryAcquire(w, d)
    \/ \E w \in Rides : MatchTxn(w)
    \/ \E w \in Rides : RetryWrite(w)
    \/ \E w \in Rides : ExpireWrite(w)
    \/ \E w \in Rides : AssignedWrite(w)
    \/ \E w \in Rides : EnRouteWrite(w)
    \/ \E w \in Rides : CompleteTxn(w)
    \/ \E w \in Rides : Unmark(w)
    \/ \E w \in Rides : CacheErrorRaised(w)
    \/ \E w \in Rides : CacheErrorCaught(w)

SpecCacheDown == Init /\ [][NextCacheDown]_vars

\* ---------------------------------------------------------------- C28
\* C28: when the busy set is unavailable during a match attempt, match_ride
\* acquires no driver and reports no match, and the worker goes on looping: it
\* does not end, and so does not leave its ride REQUESTED
C28_CacheDownKeepsLooping ==
    [][\A w \in Rides :
          (pc[w] \in {"match", "acquire"} /\ nerr' = nerr + 1) =>
              /\ held'[w] = held[w]
              /\ drv'[w] = NULL
              /\ pc'[w] # "done"]_vars

\* ---------------------------------- init_drivers run again during a replay
\* the busy-set members an operation other than a worker's own release removed
Cleared(b, b2) == Removed(b, b2)

\* `python init_drivers.py` (init_drivers(n, clear_existing=True)) while the
\* replayer runs, and the call fails after r.delete(BUSY_KEY): an INSERT or the
\* commit raises, get_cursor commits nothing, the busy set stays deleted.  The
\* calls are followed up to the first one that commits
ResetAborted ==
    /\ busy # {}
    /\ drivers[NumDrivers] = "ABSENT"
    /\ busy' = {}
    /\ held' = [w \in Rides |-> held[w] \ Cleared(busy, busy')]
    /\ wins' = [d \in Drivers |-> IF d \in Cleared(busy, busy') THEN 0 ELSE wins[d]]
    /\ UNCHANGED <<rides, drivers, trips, pc, busy_ids, cand, acq, skipped, drv, err,
                   launched, nerr, tx, retry_stats, rvars, mvars, seed, zero_rows, th>>

\* init_drivers(1, clear_existing=True) while the replayer runs, and the call
\* commits: every driver row is deleted, the busy set is deleted, and one new
\* AVAILABLE row is inserted under the next driver_id
ResetCommitted ==
    /\ drivers[NumDrivers] = "ABSENT"
    /\ \A d \in Drivers : d # NumDrivers => drivers[d] # "ABSENT"
    /\ drivers' = [d \in Drivers |-> IF d = NumDrivers THEN "AVAILABLE" ELSE "ABSENT"]
    /\ busy' = {}
    /\ held' = [w \in Rides |-> held[w] \ Cleared(busy, busy')]
    /\ wins' = [d \in Drivers |-> IF d \in Cleared(busy, busy') THEN 0 ELSE wins[d]]
    /\ UNCHANGED <<rides, trips, pc, busy_ids, cand, acq, skipped, drv, err,
                   launched, nerr, tx, retry_stats, rvars, mvars, seed, zero_rows, th>>

\* init_drivers(NumDrivers - 1): the last driver_id has no row yet
InitReset ==
    InitWith([d \in Drivers |-> IF d = NumDrivers THEN "ABSENT" ELSE "AVAILABLE"], {})

\* one replay of every seed, without store errors, while init_drivers may be
\* run again
NextReset ==
    \/ StartRun(NumRides)
    \/ \E w \in Rides : Persist(w)
    \/ \E w \in Rides : MatchStart(w)
    \/ \E w \in Rides : Query(w)
    \/ \E w \in Rides : \E d \in Drivers : TryAcquire(w, d)
    \/ \E w \in Rides : MatchTxn(w)
    \/ \E w \in Rides : Release(w)
    \/ \E w \in Rides : RetryWrite(w)
    \/ \E w \in Rides : ExpireWrite(w)
    \/ \E w \in Rides : AssignedWrite(w)
    \/ \E w \in Rides : EnRouteWrite(w)
    \/ \E w \in Rides : CompleteTxn(w)
    \/ \E w \in Rides : Unmark(w)
    \/ ResetAborted
    \/ ResetCommitted

SpecReset == InitReset /\ [][NextReset]_vars

\* ---------------------------------------------------------------- C21
\* C21: when the driver acquired in the busy set is not AVAILABLE as the match
\* transaction re-reads its row, the transaction changes neither the drivers
\* table nor the rides table, and match_ride then removes the driver's
\* busy-set entry and returns None, still without changing a row
C21_NotAvailableBranch ==
    [][\A w \in Rides :
          /\ (pc[w] = "txn" /\ pc'[w] # pc[w] /\ drivers[acq[w]] # "AVAILABLE") =>
                 /\ drivers' = drivers /\ rides' = rides /\ trips' = trips
                 /\ pc'[w] = "release"
                 /\ acq'[w] = acq[w] /\ drv'[w] = NULL
          /\ (pc[w] = "release" /\ pc'[w] # pc[w]) =>
                 /\ drivers' = drivers /\ rides' = rides /\ trips' = trips
                 /\ Str(acq[w]) \notin busy'
                 /\ pc'[w] = "retry"
                 /\ drv'[w] = NULL]_vars

\* a worker has taken the branch on a driver that another worker had set to
\* MATCHING, has released the busy-set entry and has returned None, and the
\* other worker's ride is still assigned to that driver
C21_Witness ==
    \E w, v \in Rides : \E d \in Drivers :
        /\ w # v
        /\ pc[w] = "retry"
        /\ drivers[d] = "MATCHING"
        /\ drv[v] = d
        /\ rides[v].status \in {"ASSIGNED", "EN_ROUTE"}
        /\ rides[w].status = "REQUESTED"
        /\ Str(d) \notin busy
        /\ ~\E x \in Drivers : drivers[x] = "AVAILABLE"
        /\ drivers[NumDrivers] = "ABSENT"

\* ---------------------------------------------------------------- C31
\* every seed launched so far has been given to one worker only: a single
\* replayer() call has been made
OnePass == launched = Cardinality({w \in Rides : pc[w] # "idle"})

\* the rides that are ASSIGNED or EN_ROUTE with driver d as assigned_driver
RidesOn(d) ==
    {r \in Rides : rides[r].status \in {"ASSIGNED", "EN_ROUTE"} /\ rides[r].assigned_driver = d}

\* C31: from all drivers AVAILABLE and no ride ASSIGNED or EN_ROUTE, and with
\* each ride processed by one worker, a driver is MATCHING if and only if
\* exactly one ride that is ASSIGNED or EN_ROUTE has it as assigned_driver,
\* also after a worker has ended with an error
C31_MatchingIffOneRide ==
    OnePass => \A d \in Drivers : drivers[d] = "MATCHING" <=> Cardinality(RidesOn(d)) = 1

\* one pass in which a worker has ended with an error after its match, its
\* driver still MATCHING under its ride, while another worker has completed its
\* ride and freed its driver
C31_Witness ==
    /\ OnePass
    /\ \E w, v \in Rides :
          /\ w # v
          /\ pc[w] = "done" /\ err[w]
          /\ rides[w].status \in {"ASSIGNED", "EN_ROUTE"}
          /\ drivers[rides[w].assigned_driver] = "MATCHING"
          /\ pc[v] = "done" /\ rides[v].status = "COMPLETED"
          /\ drivers[rides[v].assigned_driver] = "AVAILABLE"

\* ---------------------------------------------------------------- C32
\* C32: a ride is set to EXPIRED only by its own worker and directly after one
\* of its match attempts returned no driver (only the retries write lies in
\* between), so every ride has a match attempt before it can expire; and once
\* a match attempt has returned a driver the worker goes on to the ASSIGNED
\* write without reading the wait time: it never expires or polls again
C32_ExpireOnlyAfterFailedMatch ==
    [][\A w \in Rides :
          /\ (rides'[seed[w]].status = "EXPIRED" /\ rides[seed[w]].status # "EXPIRED")
                 => pc[w] = "expire" /\ pc'[w] = "done"
          /\ (pc'[w] = "expire" /\ pc[w] # "expire")
                 => pc[w] = "retry" /\ drv[w] = NULL
          /\ (pc'[w] = "retry" /\ pc[w] # "retry")
                 => /\ pc[w] \in {"query", "acquire", "release"}
                    /\ acq'[w] = NULL /\ drv'[w] = NULL
          /\ (pc'[w] = "assigned" /\ pc[w] # "assigned")
                 => pc[w] = "txn" /\ drv'[w] # NULL
          /\ (pc[w] \in {"assigned", "enroute", "complete", "unmark"} /\ pc'[w] # pc[w])
                 => /\ pc'[w] \in {"enroute", "complete", "unmark", "done", "persist", "idle"}
                    /\ rides'[seed[w]].status # "EXPIRED"]_vars

\* in one run a worker has expired its ride after a failed poll while another
\* worker, whose match attempt returned a driver, has gone on with its ride
C32_Witness ==
    \E w, v \in Rides :
        /\ w # v
        /\ pc[w] = "done" /\ ~err[w]
        /\ rides[w].status = "EXPIRED" /\ rides[w].retries >= 1
        /\ drv[v] # NULL
        /\ rides[v].status \in {"ASSIGNED", "EN_ROUTE"}
        /\ rides[v].assigned_driver = drv[v]

\* ---------------------------------------------------------------- C33
\* run_txn as the worker threads of the pool run it, statement by statement.
\* The threads share db._retry_stats without a lock, and `d[k] += 1` and
\* `d[k] = d.get(k, 0) + 1` each read the entry and write it back in separate
\* steps between which another thread may run.  th[w].pc: "idle", "attempt"
\* (inside the try block of the attempt), "load" and "store" (about to read,
\* about to write back, the counter th[w].field), "returned", "raised";
\* th[w].reg is the value read, th[w].code the pgcode caught and th[w].caught
\* the store errors the call has caught.

\* _retry_stats[field], for conflicts_by_attempt the entry of str(attempt + 1)
ReadStat(st, field, attempt) ==
    IF field = "conflicts_by_attempt"
    THEN st.conflicts_by_attempt[attempt + 1]
    ELSE st[field]

\* _retry_stats[field] = v, for conflicts_by_attempt the entry of str(attempt + 1)
WriteStat(st, field, attempt, v) ==
    IF field = "conflicts_by_attempt"
    THEN [st EXCEPT !.conflicts_by_attempt[attempt + 1] = v]
    ELSE [st EXCEPT ![field] = v]

\* match_ride or complete_ride calls run_txn(txn): max_retries is the default
ThreadCall(w) ==
    /\ th[w].pc = "idle"
    /\ th' = [th EXCEPT ![w].pc = "attempt"]
    /\ UNCHANGED <<wvars, tx, retry_stats>>

\* fn(cur) and conn.commit() succeed; if attempt > 0 the success is counted
ThreadCommit(w) ==
    /\ th[w].pc = "attempt"
    /\ th' = IF th[w].attempt > 0
             THEN [th EXCEPT ![w].pc = "load", ![w].field = "successful_after_retry"]
             ELSE [th EXCEPT ![w].pc = "returned"]
    /\ UNCHANGED <<wvars, tx, retry_stats>>

\* except PsycopgError as e: the error is caught and total_retries is next
ThreadStoreError(w, code) ==
    /\ th[w].pc = "attempt"
    /\ th[w].caught < MaxThreadErrors
    /\ th' = [th EXCEPT ![w].pc = "load", ![w].field = "total_retries",
                        ![w].code = code, ![w].caught = @ + 1]
    /\ UNCHANGED <<wvars, tx, retry_stats>>

\* the read of the counter
ThreadLoad(w) ==
    /\ th[w].pc = "load"
    /\ th' = [th EXCEPT ![w].pc = "store",
                        ![w].reg = ReadStat(retry_stats, th[w].field, th[w].attempt)]
    /\ UNCHANGED <<wvars, tx, retry_stats>>

\* the write of the value read plus one, and the statement that follows
ThreadStore(w) ==
    /\ th[w].pc = "store"
    /\ retry_stats' = WriteStat(retry_stats, th[w].field, th[w].attempt, th[w].reg + 1)
    /\ th' =
         CASE th[w].field = "total_retries" ->
                [th EXCEPT ![w].pc = "load", ![w].field = "conflicts_by_attempt"]
           [] th[w].field = "conflicts_by_attempt" ->
                IF Retryable(th[w].code, th[w].attempt, DEFAULT_MAX_RETRIES)
                THEN [th EXCEPT ![w].pc = "attempt", ![w].attempt = @ + 1,
                                ![w].field = "none"]
                ELSE [th EXCEPT ![w].pc = "load",
                                ![w].field = "failed_after_max_retries"]
           [] th[w].field = "failed_after_max_retries" ->
                [th EXCEPT ![w].pc = "raised", ![w].field = "none"]
           [] OTHER ->
                [th EXCEPT ![w].pc = "returned", ![w].field = "none"]
    /\ UNCHANGED <<wvars, tx>>

NextThreads ==
    \/ \E w \in Rides : ThreadCall(w)
    \/ \E w \in Rides : ThreadCommit(w)
    \/ \E w \in Rides : \E code \in {"40001", "other"} : ThreadStoreError(w, code)
    \/ \E w \in Rides : ThreadLoad(w)
    \/ \E w \in Rides : ThreadStore(w)

\* the worker threads of one replayer() call, after its reset_retry_stats()
SpecThreads == Init /\ [][NextThreads]_vars

\* the sum of f over S
RECURSIVE SumOver(_, _)
SumOver(f, S) ==
    IF S = {} THEN 0
    ELSE LET x == CHOOSE y \in S : TRUE IN f[x] + SumOver(f, S \ {x})

\* store errors caught by the run_txn calls since the reset
Caught == SumOver([w \in Rides |-> th[w].caught], Rides)

\* no thread is between catching an error and having counted it
Counted ==
    \A w \in Rides :
        th[w].pc \in {"load", "store"} =>
            th[w].field \in {"failed_after_max_retries", "successful_after_retry"}

\* C33: under every interleaving of the threads' run_txn calls, once every
\* caught store error has been counted, total_retries is the number of store
\* errors caught since the reset and the sum of conflicts_by_attempt's values
C33_NoUpdateLost ==
    Counted =>
        /\ retry_stats.total_retries = Caught
        /\ retry_stats.total_retries =
             SumOver(retry_stats.conflicts_by_attempt, DOMAIN retry_stats.conflicts_by_attempt)

====
